---- MODULE Spec2Model ----
(***************************************************************************)
(* Model of the chat relay server of "Final Project CSI 275"               *)
(* (chat_server.py): the registry ChatServer.clients, the router           *)
(* (broadcast, send_private, broadcast_leave_message) and the per          *)
(* connection session worker ChatServer.handle_client.                     *)
(*                                                                         *)
(* One action is one iteration of handle_client's while loop (one frame,   *)
(* one end-of-stream or one failed read), with every call it makes.  The   *)
(* peers are the environment: they send frames, close or reset their end.  *)
(* This is Spec, and SpecClients for peers that run chat_client.py.        *)
(*                                                                         *)
(* Four more specifications look at one part each:                         *)
(*   SpecThreads  the handler threads step by step, sharing the dict;      *)
(*   SpecOrder    the frames of a connection as a stream read in order;    *)
(*   SpecClient   the two threads of one ChatClient (chat_client.py);      *)
(*   SpecReader   the framing, byte by byte, under short reads.            *)
(***************************************************************************)
EXTENDS Integers, Sequences, FiniteSets, TLC

\* ------------------------------------------------------------------ bounds
\* Frames, other than each client's one START, that the server processes in
\* one run.  A run also holds at most one frame that chat_client.py would
\* not send on its connection, and at most one peer that closes or resets
\* its end without sending EXIT.
MaxFrames == 1

\* The connections the server accepts, in this order.
Conns == {1, 2, 3}

\* Screen names the peers may put in a frame.
Names == {"alice", "bob", "carol"}

\* The screen names the user at connection c may pick.  Names are
\* interchangeable, so the first user picks the first name, and a later one
\* a name already picked or the next one.
NameOrder == <<"alice", "bob", "carol">>

NamesFor(c) == {NameOrder[i] : i \in 1..c}

\* Message texts.
Texts == {"hi"}

\* Python's None, the initial value of handle_client's client_screen_name.
None == "None"

VARIABLES
    clients,             \* ChatServer.clients: the dict, in insertion order
    pc,                  \* per connection: position of its handler thread
    client_screen_name,  \* per connection: handle_client's local variable
    sockClosed,          \* per connection: the server called client_sock.close()
    link,                \* per connection: the peer's end ("up", "eof", "reset")
    started,             \* per connection: names it STARTed, until EXIT/disconnect
    screen_name,         \* per connection: the peer's ChatClient.screen_name
    used,                \* frames so far; whether a rogue frame, a fault happened
    last,                \* the last handler step: its input, pre-state and sends
    thr,                 \* per connection: the handler thread's frame and loop
    cl,                  \* one ChatClient: its two threads, flag, socket, writes
    rx,                  \* one reader of the framing: byte stream and position
    ord                  \* per connection: frames written, unread, envelopes got

\* The server's state.
server == <<clients, pc, client_screen_name, sockClosed, link, started,
            screen_name, used, last>>

vars == <<clients, pc, client_screen_name, sockClosed, link, started,
          screen_name, used, last, thr, cl, rx, ord>>

\* What the actions that run a handler iteration as one step leave alone.
ext == <<thr, cl, rx, ord>>

\* ------------------------------------------------------------ the dict
\* self.clients is a Python dict: a sequence of items in insertion order.
Keys(d) == {d[i].name : i \in DOMAIN d}

\* d[name], for a name that is a key.
GetItem(d, name) == d[CHOOSE i \in DOMAIN d : d[i].name = name].sock

\* d[name] = sock: an existing key keeps its position, a new one is appended.
SetItem(d, name, sock) ==
    IF name \in Keys(d)
    THEN [i \in DOMAIN d |->
              IF d[i].name = name THEN [name |-> name, sock |-> sock] ELSE d[i]]
    ELSE Append(d, [name |-> name, sock |-> sock])

\* del d[name], for a name that is a key.
DelItem(d, name) == SelectSeq(d, LAMBDA e : e.name # name)

\* list(d.keys())
KeyList(d) == [i \in DOMAIN d |-> d[i].name]

\* --------------------------------------------------------------- sockets
\* socket.send raises OSError on a socket the server closed (bad descriptor)
\* and on a connection the peer reset (broken pipe / connection reset).
SendFails(sock) == sockClosed[sock] \/ link[sock] = "reset"

NoDeliv == [c \in Conns |-> <<>>]

\* client.send(message): the message reaches the connection, or OSError.
SockSend(deliv, sock, message) ==
    IF SendFails(sock)
    THEN [deliv |-> deliv, exc |-> "OSError"]
    ELSE [deliv |-> [deliv EXCEPT ![sock] = Append(@, message)], exc |-> "none"]

\* ---------------------------------------------------------------- frames
\* A frame's payload: text that json.loads parses into the array msg, or
\* text it rejects (json |-> FALSE).
Frame(msg) == [json |-> TRUE, msg |-> msg]

NotJson == [json |-> FALSE, msg |-> <<>>]

\* The frames send_message builds in a ChatClient whose screen_name is n:
\* the START of receive_messages, and what the input loop sends.
StartFrame(n) == Frame(<<"START", n>>)

InputFrames(n) ==
    {Frame(<<"EXIT", n>>)}
    \cup {Frame(<<"BROADCAST", n, t>>) : t \in Texts}
    \cup {Frame(<<"PRIVATE", n, t, r>>) : t \in Texts, r \in Names}

ClientFrames(n) == {StartFrame(n)} \cup InputFrames(n)

\* Frames no client builds: not JSON, an empty array, too few fields for
\* the kind, a kind the server does not know.
BadFrames ==
    {NotJson, Frame(<<>>), Frame(<<"START">>), Frame(<<"BROADCAST", "alice">>),
     Frame(<<"PRIVATE", "alice", "hi">>), Frame(<<"PING", "alice">>)}

Frames == UNION {ClientFrames(n) : n \in Names} \cup BadFrames

\* The frames that a ChatClient whose screen_name is n does not send.  The
\* server never reads the name in an EXIT frame, so EXIT is left to
\* InputFrames.
RogueFrames(n) ==
    {f \in Frames \ ClientFrames(n) : Len(f.msg) = 0 \/ f.msg[1] # "EXIT"}

\* ----------------------------------------------------------------- router
\* ChatServer.broadcast: the for loop over self.clients.items(), from item i.
\* An OSError of client.send leaves the loop at once.
RECURSIVE BroadcastLoop(_, _, _, _, _)
BroadcastLoop(d, i, message, sender, deliv) ==
    IF i > Len(d)
    THEN [deliv |-> deliv, exc |-> "none"]
    ELSE IF d[i].name # sender
         THEN LET r == SockSend(deliv, d[i].sock, message)
              IN  IF r.exc # "none"
                  THEN r
                  ELSE BroadcastLoop(d, i + 1, message, sender, r.deliv)
         ELSE BroadcastLoop(d, i + 1, message, sender, deliv)

broadcast(d, message, sender, deliv) == BroadcastLoop(d, 1, message, sender, deliv)

\* The text f'Recipient {recipient} not found'.
NotFound(recipient) == <<"Recipient", recipient, "not found">>

\* send_private looking the connection up under the sender's name.
send_private_to_sender(d, message, sender, recipient, deliv) ==
    IF recipient \in Keys(d)
    THEN IF sender \in Keys(d)
         THEN SockSend(deliv, GetItem(d, sender), message)
         ELSE [deliv |-> deliv, exc |-> "KeyError"]
    ELSE IF sender \in Keys(d)
         THEN SockSend(deliv, GetItem(d, sender), <<"ERROR", NotFound(recipient)>>)
         ELSE [deliv |-> deliv, exc |-> "KeyError"]

\* ChatServer.send_private: self.clients[sender] raises KeyError when the
\* frame's sender is no key of the dict.
send_private(d, message, sender, recipient, deliv) ==
    IF recipient \in Keys(d)
    THEN SockSend(deliv, GetItem(d, recipient), message)
    ELSE IF sender \in Keys(d)
         THEN SockSend(deliv, GetItem(d, sender), <<"ERROR", NotFound(recipient)>>)
         ELSE [deliv |-> deliv, exc |-> "KeyError"]

\* ChatServer.broadcast_leave_message
broadcast_leave_message(d, name, deliv) ==
    broadcast(d, <<"LEAVE", name>>, name, deliv)

\* ----------------------------------------------------------- the session
\* What one pass through handle_client's try block leaves behind: the dict,
\* the local client_screen_name, the sends made, the exception raised (or
\* "none"), whether the loop was left by break, whether the socket was
\* closed, and whether the except clause ran.
Outcome(d, csn, deliv, exc, brk, close) ==
    [clients |-> d, csn |-> csn, deliv |-> deliv, exc |-> exc,
     brk |-> brk, close |-> close, caught |-> FALSE]

\* msg[0] == 'START'
OnStart(c, msg, d, csn) ==
    IF Len(msg) < 2
    THEN Outcome(d, csn, NoDeliv, "IndexError", FALSE, FALSE)
    ELSE LET name == msg[2]
             d1   == SetItem(d, name, c)
             r1   == SockSend(NoDeliv, c, <<"USER_LIST", KeyList(d1)>>)
             r2   == broadcast(d1, <<"JOIN", name>>, name, r1.deliv)
         IN  IF r1.exc # "none"
             THEN Outcome(d1, name, r1.deliv, r1.exc, FALSE, FALSE)
             ELSE Outcome(d1, name, r2.deliv, r2.exc, FALSE, FALSE)

\* msg[0] == 'BROADCAST'
OnBroadcast(c, msg, d, csn) ==
    IF Len(msg) < 3
    THEN Outcome(d, csn, NoDeliv, "IndexError", FALSE, FALSE)
    ELSE LET name == msg[2]
             r    == broadcast(d, <<"BROADCAST", name, msg[3]>>, name, NoDeliv)
         IN  Outcome(d, name, r.deliv, r.exc, FALSE, FALSE)

\* msg[0] == 'PRIVATE'
OnPrivate(c, msg, d, csn) ==
    IF Len(msg) < 4
    THEN Outcome(d, csn, NoDeliv, "IndexError", FALSE, FALSE)
    ELSE LET r == send_private(d, <<"PRIVATE", msg[2], msg[3]>>, msg[2], msg[4],
                               NoDeliv)
         IN  Outcome(d, csn, r.deliv, r.exc, FALSE, FALSE)

\* msg[0] == 'EXIT': del self.clients[client_screen_name] raises KeyError
\* when the local name is no key of the dict.
OnExit(c, msg, d, csn) ==
    IF csn \notin Keys(d)
    THEN Outcome(d, csn, NoDeliv, "KeyError", FALSE, FALSE)
    ELSE LET d1 == DelItem(d, csn)
             r  == broadcast_leave_message(d1, csn, NoDeliv)
         IN  IF r.exc # "none"
             THEN Outcome(d1, csn, r.deliv, r.exc, FALSE, FALSE)
             ELSE Outcome(d1, csn, r.deliv, "none", TRUE, TRUE)

\* The try block of handle_client after the two recv calls, for payload f.
TryBlock(c, f, d, csn) ==
    IF ~f.json
    THEN Outcome(d, csn, NoDeliv, "ValueError", FALSE, FALSE)
    ELSE IF Len(f.msg) = 0
    THEN Outcome(d, csn, NoDeliv, "IndexError", FALSE, FALSE)
    ELSE IF f.msg[1] = "START"     THEN OnStart(c, f.msg, d, csn)
    ELSE IF f.msg[1] = "BROADCAST" THEN OnBroadcast(c, f.msg, d, csn)
    ELSE IF f.msg[1] = "PRIVATE"   THEN OnPrivate(c, f.msg, d, csn)
    ELSE IF f.msg[1] = "EXIT"      THEN OnExit(c, f.msg, d, csn)
    ELSE Outcome(d, csn, NoDeliv, "none", FALSE, FALSE)

\* The except clause of handle_client: it catches OSError only.  An OSError
\* raised inside it (by broadcast_leave_message) is caught by nothing: the
\* thread ends before client_sock.close().
ExceptBlock(c, d, csn, deliv) ==
    LET o == IF csn \in Keys(d)
             THEN LET d1 == DelItem(d, csn)
                      r  == broadcast_leave_message(d1, csn, deliv)
                  IN  IF r.exc # "none"
                      THEN Outcome(d1, csn, r.deliv, r.exc, FALSE, FALSE)
                      ELSE Outcome(d1, csn, r.deliv, "none", TRUE, TRUE)
             ELSE Outcome(d, csn, deliv, "none", TRUE, TRUE)
    IN  [o EXCEPT !.caught = TRUE]

\* One iteration of the while loop on payload f: the try block, and the
\* except clause when the try block raised OSError.  exc is then the
\* exception that ends the thread, if any.
HandleFrame(c, f, d, csn) ==
    LET t == TryBlock(c, f, d, csn)
    IN  IF t.exc = "OSError" THEN ExceptBlock(c, t.clients, t.csn, t.deliv) ELSE t

\* Where the handler thread is after an iteration with outcome o.
NextPc(o) ==
    IF o.exc # "none" THEN "dead" ELSE IF o.brk THEN "done" ELSE "recv"

\* The names session c has STARTed and still holds after an iteration with
\* outcome o on payload f: none once it processed EXIT, read end-of-stream
\* or took the I/O failure path (the except clause).
NextStarted(c, op, f, o) ==
    IF op # "frame" \/ o.caught \/ (f.json /\ Len(f.msg) > 0 /\ f.msg[1] = "EXIT")
    THEN {}
    ELSE IF f.json /\ Len(f.msg) >= 2 /\ f.msg[1] = "START"
         THEN started[c] \cup {f.msg[2]}
         ELSE started[c]

\* The session states of the design: ANONYMOUS until a START is processed,
\* ACTIVE after it, CLOSED once the handler thread has left its loop.
SessionState(c) ==
    IF pc[c] = "idle" THEN "NONE"
    ELSE IF pc[c] # "recv" THEN "CLOSED"
    ELSE IF started[c] = {} THEN "ANONYMOUS" ELSE "ACTIVE"

\* The connections on which a send fails now.
Failing == {c \in Conns : SendFails(c)}

NoLast ==
    [op |-> "none", conn |-> 0, frame |-> NotJson, pre |-> <<>>,
     preState |-> "NONE", preCsn |-> None, preStarted |-> {}, fails |-> {},
     deliv |-> NoDeliv,
     exc |-> "none", caught |-> FALSE]

\* The record of one handler iteration of connection c.
Step(op, c, f, o) ==
    [op |-> op, conn |-> c, frame |-> f, pre |-> clients,
     preState |-> SessionState(c), preCsn |-> client_screen_name[c],
     preStarted |-> started[c],
     fails |-> Failing, deliv |-> o.deliv, exc |-> o.exc, caught |-> o.caught]

\* The state after an iteration of connection c with outcome o.
Commit(op, c, f, o) ==
    /\ clients' = o.clients
    /\ client_screen_name' = [client_screen_name EXCEPT ![c] = o.csn]
    /\ pc' = [pc EXCEPT ![c] = NextPc(o)]
    /\ sockClosed' = [sockClosed EXCEPT ![c] = @ \/ o.close]
    /\ started' = [started EXCEPT ![c] = NextStarted(c, op, f, o)]
    /\ last' = Step(op, c, f, o)
    /\ UNCHANGED <<link, screen_name>>
    /\ UNCHANGED ext

\* A handler thread that is not inside a frame.  msg is the frame it is
\* processing; made/i/n are the dict iterator of broadcast's for loop
\* (whether it exists, the next index, the dict's size when it was made);
\* message and sender are broadcast's arguments and after is where the call
\* returns to; exc is the exception that ended the thread.
NoThread ==
    [msg |-> <<>>, made |-> FALSE, i |-> 0, n |-> 0, message |-> <<>>,
     sender |-> None, after |-> "recv", exc |-> "none"]

\* A ChatClient after __init__: main is the thread that runs start(), rcv
\* the thread that runs receive_messages, connected is self.connected,
\* closed says self.sock.close() was called, wire holds the frames written
\* to the socket, peer is the server's end, inputs and recvd count the
\* lines typed and the envelopes read.
ClientInit ==
    [main |-> "start", rcv |-> "new", connected |-> TRUE, closed |-> FALSE,
     wire |-> <<>>, peer |-> "up", inputs |-> 0, recvd |-> 0]

\* A reader at the top of its loop on an empty stream: sent are the
\* messages written by the other side, bytes all bytes written, arrived
\* how many of them are in the socket's receive buffer, pos how many have
\* been read, msg_len the local of that name, decoded the messages read.
ReaderInit ==
    [sent |-> <<>>, bytes |-> <<>>, arrived |-> 0, pos |-> 0, pc |-> "len",
     msg_len |-> 0, decoded |-> <<>>, exc |-> "none"]

\* No frame written and no envelope received on any connection.
OrderInit ==
    [sent |-> [c \in Conns |-> <<>>], outq |-> [c \in Conns |-> <<>>],
     inbox |-> [c \in Conns |-> <<>>]]

\* ---------------------------------------------------------------- actions
Init ==
    /\ clients = <<>>
    /\ pc = [c \in Conns |-> "idle"]
    /\ client_screen_name = [c \in Conns |-> None]
    /\ sockClosed = [c \in Conns |-> FALSE]
    /\ link = [c \in Conns |-> "up"]
    /\ started = [c \in Conns |-> {}]
    /\ screen_name = [c \in Conns |-> None]
    /\ used = [frames |-> 0, rogue |-> FALSE, fault |-> FALSE]
    /\ last = NoLast
    /\ thr = [c \in Conns |-> NoThread]
    /\ cl = ClientInit
    /\ rx = ReaderInit
    /\ ord = OrderInit

\* accept_connections: one accepted connection, one handler thread.  The
\* peer is a ChatClient constructed with some screen name.
Accept(c) ==
    /\ pc[c] = "idle"
    /\ IF c = 1 THEN TRUE ELSE pc[c - 1] # "idle"
    /\ \E n \in NamesFor(c) : screen_name' = [screen_name EXCEPT ![c] = n]
    /\ pc' = [pc EXCEPT ![c] = "recv"]
    /\ last' = NoLast
    /\ UNCHANGED <<clients, client_screen_name, sockClosed, link, started, used>>
    /\ UNCHANGED ext

\* handle_client reads and processes the START that its peer's ChatClient
\* sends once, from receive_messages.
RecvStart(c) ==
    /\ pc[c] = "recv"
    /\ link[c] = "up"
    /\ screen_name[c] \notin started[c]
    /\ Commit("frame", c, StartFrame(screen_name[c]),
              HandleFrame(c, StartFrame(screen_name[c]), clients,
                          client_screen_name[c]))
    /\ UNCHANGED used

\* handle_client reads and processes a frame that its peer's ChatClient
\* sent from the input loop.
RecvFrame(c) ==
    /\ pc[c] = "recv"
    /\ link[c] = "up"
    /\ used.frames < MaxFrames
    /\ used' = [used EXCEPT !.frames = @ + 1]
    /\ \E f \in InputFrames(screen_name[c]) :
           Commit("frame", c, f, HandleFrame(c, f, clients, client_screen_name[c]))

\* handle_client reads and processes a frame that no ChatClient with the
\* peer's screen name sends: another name in it, or a bad frame.
RecvRogueFrame(c) ==
    /\ pc[c] = "recv"
    /\ link[c] = "up"
    /\ used.frames < MaxFrames
    /\ ~used.rogue
    /\ used' = [used EXCEPT !.frames = @ + 1, !.rogue = TRUE]
    /\ \E f \in RogueFrames(screen_name[c]) :
           Commit("frame", c, f, HandleFrame(c, f, clients, client_screen_name[c]))

\* recv(4) returns b'': the loop is left by break, and nothing else is done.
RecvEOF(c) ==
    /\ pc[c] = "recv"
    /\ link[c] = "eof"
    /\ Commit("eof", c, NotJson,
              Outcome(clients, client_screen_name[c], NoDeliv, "none", TRUE, FALSE))
    /\ UNCHANGED used

\* recv raises ConnectionResetError: the except clause runs.
RecvError(c) ==
    /\ pc[c] = "recv"
    /\ link[c] = "reset"
    /\ Commit("error", c, NotJson,
              ExceptBlock(c, clients, client_screen_name[c], NoDeliv))
    /\ UNCHANGED used

\* The peer closes its end while its handler thread runs: the server's
\* next read returns end-of-stream.
PeerClose(c) ==
    /\ pc[c] = "recv"
    /\ link[c] = "up"
    /\ ~used.fault
    /\ used' = [used EXCEPT !.fault = TRUE]
    /\ link' = [link EXCEPT ![c] = "eof"]
    /\ last' = NoLast
    /\ UNCHANGED <<clients, pc, client_screen_name, sockClosed, started, screen_name>>
    /\ UNCHANGED ext

\* The peer resets the connection while its handler thread runs: reads and
\* sends on it raise OSError.
PeerReset(c) ==
    /\ pc[c] = "recv"
    /\ link[c] = "up"
    /\ ~used.fault
    /\ used' = [used EXCEPT !.fault = TRUE]
    /\ link' = [link EXCEPT ![c] = "reset"]
    /\ last' = NoLast
    /\ UNCHANGED <<clients, pc, client_screen_name, sockClosed, started, screen_name>>
    /\ UNCHANGED ext

\* The server with peers that run chat_client.py.
NextClients ==
    \E c \in Conns :
        \/ Accept(c)
        \/ RecvStart(c)
        \/ RecvFrame(c)
        \/ RecvEOF(c)
        \/ RecvError(c)
        \/ PeerClose(c)
        \/ PeerReset(c)

SpecClients == Init /\ [][NextClients]_vars

\* The server with any peers.
Next ==
    \/ NextClients
    \/ \E c \in Conns : RecvRogueFrame(c)

Spec == Init /\ [][Next]_vars

\* ------------------------------------------------------------- properties
\* The last step processed a frame of the given kind with at least n fields.
LastIs(kind, n) ==
    /\ last.op = "frame"
    /\ last.frame.json
    /\ Len(last.frame.msg) >= n
    /\ last.frame.msg[1] = kind

Msg == last.frame.msg

\* The connections registered in dict d.
Socks(d) == {d[i].sock : i \in DOMAIN d}

\* The names that live sessions STARTed and have not given up by EXIT or
\* by disconnecting.
HeldNames == UNION {started[c] : c \in Conns}

\* C1: after any sequence of START frames, EXIT frames and disconnects, the
\* registry's key set is exactly the set of names whose owning session has
\* processed START and has not yet processed EXIT or disconnected.
C1_RegistryIsHeldNames == Keys(clients) = HeldNames

\* C2: when an ACTIVE session processes BROADCAST(sender, text), every other
\* connection registered at that moment receives exactly one
\* [BROADCAST, sender, text], the sender's connection receives none, and the
\* session stays ACTIVE.  Stated for a sender field that is registered to
\* the sending connection, and for recipients on which a send can succeed.
C2_BroadcastReachesOthers ==
    (/\ LastIs("BROADCAST", 3)
     /\ last.preState = "ACTIVE"
     /\ Msg[2] \in Keys(last.pre)
     /\ GetItem(last.pre, Msg[2]) = last.conn)
    => /\ \A d \in Socks(last.pre) \ {last.conn} :
              d \notin last.fails
              => last.deliv[d] = << <<"BROADCAST", Msg[2], Msg[3]>> >>
       /\ last.deliv[last.conn] = <<>>
       /\ SessionState(last.conn) = "ACTIVE"

C4_UnknownRecipientError ==
    (/\ LastIs("PRIVATE", 4)
     /\ Msg[4] \notin Keys(last.pre))
    => /\ last.deliv = [NoDeliv EXCEPT ![last.conn] =
                                           << <<"ERROR", NotFound(Msg[4])>> >>]
       /\ SessionState(last.conn) = last.preState

\* The envelopes in a connection's sends of the last step.
Range(q) == {q[i] : i \in DOMAIN q}

\* The connections registered in d under a name other than name.
OtherSocks(d, name) == {d[i].sock : i \in {j \in DOMAIN d : d[j].name # name}}

\* C5: when an ANONYMOUS session processes START(name), the name is
\* registered first, the joiner then receives one USER_LIST with exactly the
\* registry's names at that moment (its own name and every name registered
\* before), every other registered connection receives exactly one
\* JOIN(name), and the joiner receives no JOIN.  Stated for recipients on
\* which a send can succeed.
C5_StartListsAndJoins ==
    (/\ LastIs("START", 2)
     /\ last.preState = "ANONYMOUS")
    => /\ Len(last.deliv[last.conn]) = 1
       /\ last.deliv[last.conn][1][1] = "USER_LIST"
       /\ Range(last.deliv[last.conn][1][2]) = Keys(last.pre) \cup {Msg[2]}
       /\ \A d \in OtherSocks(last.pre, Msg[2]) \ {last.conn} :
              d \notin last.fails => last.deliv[d] = << <<"JOIN", Msg[2]>> >>

\* C6: when an ACTIVE session processes EXIT, its name is removed from the
\* registry, every connection still registered receives exactly one
\* LEAVE(name), the leaving connection is closed and the session becomes
\* CLOSED.  Stated for recipients on which a send can succeed.
C6_ExitRemovesAndLeaves ==
    (/\ LastIs("EXIT", 1)
     /\ last.preState = "ACTIVE")
    => /\ last.preStarted \cap Keys(clients) = {}
       /\ \A d \in Socks(clients) \ {last.conn} :
              d \notin last.fails
              => \E n \in last.preStarted : last.deliv[d] = << <<"LEAVE", n>> >>
       /\ sockClosed[last.conn]
       /\ SessionState(last.conn) = "CLOSED"

\* C7: when a session's peer closes the connection (a read returns
\* end-of-stream) or a read raises an I/O error, the session becomes CLOSED
\* and its connection is closed; if it was ACTIVE its name is removed from
\* the registry and LEAVE is broadcast to the others.
C7_DisconnectCleansUp ==
    (last.op \in {"eof", "error"})
    => /\ SessionState(last.conn) = "CLOSED"
       /\ sockClosed[last.conn]
       /\ last.preState = "ACTIVE"
          => /\ last.preStarted \cap Keys(clients) = {}
             /\ \A d \in Socks(clients) \ {last.conn} :
                    d \notin last.fails
                    => \E n \in last.preStarted :
                           <<"LEAVE", n>> \in Range(last.deliv[d])

\* C8: when broadcast delivers an envelope (the JOIN of a START, the
\* envelope of a BROADCAST) to the registered recipients and the send to one
\* of them fails, each of the other recipients still receives the envelope.
C8_BroadcastSurvivesOneFailure ==
    LET env == IF Msg[1] = "START"
               THEN <<"JOIN", Msg[2]>>
               ELSE <<"BROADCAST", Msg[2], Msg[3]>>
        recipients == OtherSocks(last.pre, Msg[2]) \ {last.conn}
    IN  (/\ LastIs("START", 2) \/ LastIs("BROADCAST", 3)
         /\ Cardinality(recipients \cap last.fails) = 1)
        => \A d \in recipients \ last.fails : env \in Range(last.deliv[d])

\* The names under which the recipients of the last step that refused the
\* send were registered.
FailedNames ==
    IF Msg[1] = "PRIVATE"
    THEN {Msg[4]}
    ELSE {last.pre[i].name :
              i \in {j \in DOMAIN last.pre :
                        /\ last.pre[j].sock \in last.fails
                        /\ last.pre[j].name # Msg[2]}}

\* C9: a send failure to recipient R while ACTIVE session S processes a
\* BROADCAST or a PRIVATE is R's disconnection: R's name is removed from the
\* registry and LEAVE(R) is broadcast, and S is not torn down: S keeps its
\* registry entry and stays ACTIVE.
C9_SendFailureIsRecipientsDisconnect ==
    (/\ \/ LastIs("BROADCAST", 3)
        \/ LastIs("PRIVATE", 4) /\ Msg[4] \in Keys(last.pre)
     /\ last.preState = "ACTIVE"
     /\ last.caught)
    => /\ SessionState(last.conn) = "ACTIVE"
       /\ \A i \in DOMAIN last.pre :
              last.pre[i].sock = last.conn => last.pre[i] \in Range(clients)
       /\ \A n \in FailedNames :
              /\ n \notin Keys(clients)
              /\ \A d \in Socks(clients) \ last.fails :
                     <<"LEAVE", n>> \in Range(last.deliv[d])

\* A frame that is not JSON, is an empty array, names a kind the server does
\* not know, or has too few fields for its kind.
IsBadFrame(f) ==
    \/ ~f.json
    \/ Len(f.msg) = 0
    \/ f.msg[1] \notin {"START", "BROADCAST", "PRIVATE", "EXIT"}
    \/ f.msg[1] = "START" /\ Len(f.msg) < 2
    \/ f.msg[1] = "BROADCAST" /\ Len(f.msg) < 3
    \/ f.msg[1] = "PRIVATE" /\ Len(f.msg) < 4

\* C10: a frame whose payload is malformed, has the wrong number of fields
\* for its kind or names an unknown kind is dropped: the registry is
\* unchanged, nothing is sent, and the session stays in its state and goes
\* on reading.
C10_BadFrameDropped ==
    (last.op = "frame" /\ IsBadFrame(last.frame))
    => /\ clients = last.pre
       /\ last.deliv = NoDeliv
       /\ SessionState(last.conn) = last.preState
       /\ pc[last.conn] = "recv"

\* C13: in every reachable state each connection is bound to at most one
\* screen name: no connection is the registry value of two different names,
\* also after the same connection sent START more than once with different
\* names.
C13_OneNamePerConnection ==
    \A i, j \in DOMAIN clients : clients[i].sock = clients[j].sock => i = j

\* C19: the registry entry a session removes on EXIT or on I/O failure is
\* the entry this same session created with its own START: a name that a
\* step removes from the registry was mapped to the connection of the
\* session that took the step.
C19_RemovesOwnEntryOnly ==
    \A i \in DOMAIN last.pre :
        last.pre[i].name \notin Keys(clients) => last.pre[i].sock = last.conn

\* C20: in every reachable state every connection stored in the registry is
\* still open on the server side: no registry entry maps to a connection
\* that the server has closed.
C20_RegisteredIsOpen == \A c \in Socks(clients) : ~sockClosed[c]

\* ---------------------------------------- the handler threads, step by step
\* Each connection's handler is a thread of its own (accept_connections) and
\* self.clients is shared without a lock.  Here a handler iteration is cut
\* where another thread can run: between two operations on the dict, and at
\* each client.send.  One operation on the dict (a store, a del, a lookup,
\* a membership test, list(keys), one step of the iterator) is one step.
\* The peers run chat_client.py and their connections stay up.

\* The frames, START apart, that the handler threads read in all.
MaxThreadFrames == 2

\* Wrong key: every START stored under the frame's kind.
ThreadRegisterByKind(d, msg, c) == SetItem(d, msg[1], c)

\* self.clients[client_screen_name] = client_sock, with client_screen_name
\* taken from msg[1] of the START frame.
ThreadRegister(d, msg, c) == SetItem(d, msg[2], c)

\* The index of key name in the dict's entries.
IndexOf(d, name) == CHOOSE i \in DOMAIN d : d[i].name = name

\* The threads after thread c deleted entry idx: a dict iterator counts
\* entries, the deleted one stays behind as a hole, so an iterator that has
\* passed it points at the same entry as before.
AfterDel(c, idx) ==
    [x \in Conns |->
        IF x # c /\ pc[x] = "iter" /\ thr[x].made /\ thr[x].i > idx
        THEN [thr[x] EXCEPT !.i = @ - 1]
        ELSE thr[x]]

\* Thread state t at the call of broadcast(message, sender).
BeginBroadcast(t, message, sender, after) ==
    [t EXCEPT !.made = FALSE, !.i = 1, !.n = 0, !.message = message,
              !.sender = sender, !.after = after]

\* The state after a step of thread c.
ThreadCommit(c, d, csn, p, close, st, t, T) ==
    /\ clients' = d
    /\ client_screen_name' = [client_screen_name EXCEPT ![c] = csn]
    /\ pc' = [pc EXCEPT ![c] = p]
    /\ sockClosed' = [sockClosed EXCEPT ![c] = @ \/ close]
    /\ started' = [started EXCEPT ![c] = st]
    /\ thr' = [T EXCEPT ![c] = t]
    /\ UNCHANGED <<link, screen_name, last, cl, rx, ord>>

\* A step of thread c that touches nothing but its own position and locals.
ThreadMove(c, p, t) ==
    ThreadCommit(c, clients, client_screen_name[c], p, FALSE, started[c], t, thr)

\* An uncaught exception: the thread ends where it is.
ThreadDies(c, exc) == ThreadMove(c, "dead", [thr[c] EXCEPT !.exc = exc])

\* client.send raised OSError inside the try block: the except clause.
ThreadExcept(c) ==
    LET o == ExceptBlock(c, clients, client_screen_name[c], NoDeliv)
    IN  ThreadCommit(c, o.clients, o.csn, NextPc(o), o.close, {},
                     [thr[c] EXCEPT !.exc = o.exc], thr)

\* START, lines 83-84: the name is bound and stored.
TStart(c) ==
    /\ pc[c] = "recv"
    /\ screen_name[c] \notin started[c]
    /\ UNCHANGED used
    /\ LET msg == StartFrame(screen_name[c]).msg
       IN  ThreadCommit(c, ThreadRegister(clients, msg, c), msg[2], "list", FALSE,
                        started[c] \cup {msg[2]},
                        [thr[c] EXCEPT !.msg = msg], thr)

\* START, lines 88-100: list(self.clients.keys()) is sent to the joiner,
\* then broadcast(JOIN) is called.
TList(c) ==
    /\ pc[c] = "list"
    /\ UNCHANGED used
    /\ IF SockSend(NoDeliv, c, <<"USER_LIST", KeyList(clients)>>).exc # "none"
       THEN ThreadExcept(c)
       ELSE ThreadMove(c, "iter",
                       BeginBroadcast(thr[c], <<"JOIN", client_screen_name[c]>>,
                                      client_screen_name[c], "recv"))

\* One turn of broadcast's for loop.  The iterator is made at the first
\* turn.  Each turn first compares the dict's size with the size when the
\* iterator was made and raises RuntimeError when they differ; then it
\* ends the loop when no entry is left, or takes the next entry and sends.
\* After the loop of an EXIT the socket is closed and the thread returns.
TIter(c) ==
    /\ pc[c] = "iter"
    /\ UNCHANGED used
    /\ LET t    == thr[c]
           n    == IF t.made THEN t.n ELSE Len(clients)
           t0   == [t EXCEPT !.made = TRUE, !.n = n]
       IN  IF n # Len(clients)
           THEN ThreadDies(c, "RuntimeError")
           ELSE IF t.i > Len(clients)
           THEN ThreadCommit(c, clients, client_screen_name[c],
                             IF t.after = "close" THEN "done" ELSE "recv",
                             t.after = "close", started[c], NoThread, thr)
           ELSE LET item == clients[t.i]
                    t1   == [t0 EXCEPT !.i = @ + 1]
                IN  IF item.name = t.sender
                    THEN ThreadMove(c, "iter", t1)
                    ELSE IF SockSend(NoDeliv, item.sock, t.message).exc # "none"
                    THEN ThreadExcept(c)
                    ELSE ThreadMove(c, "iter", t1)

\* The thread reads a frame of the peer's input loop and runs its branch up
\* to the first point where another thread can run: BROADCAST rebinds the
\* name and calls broadcast; PRIVATE runs send_private's membership test;
\* EXIT deletes the name and calls broadcast_leave_message.
TRecvFrame(c) ==
    /\ pc[c] = "recv"
    /\ used.frames < MaxThreadFrames
    /\ used' = [used EXCEPT !.frames = @ + 1]
    /\ \E f \in InputFrames(screen_name[c]) :
         LET msg == f.msg
             t   == [thr[c] EXCEPT !.msg = msg]
             csn == client_screen_name[c]
         IN  IF msg[1] = "BROADCAST"
             THEN ThreadCommit(c, clients, msg[2], "iter", FALSE, started[c],
                               BeginBroadcast(t, <<"BROADCAST", msg[2], msg[3]>>,
                                              msg[2], "recv"), thr)
             ELSE IF msg[1] = "PRIVATE"
             THEN ThreadMove(c, IF msg[4] \in Keys(clients) THEN "lookup" ELSE "error", t)
             ELSE IF csn \notin Keys(clients)
             THEN ThreadMove(c, "dead", [t EXCEPT !.exc = "KeyError"])
             ELSE ThreadCommit(c, DelItem(clients, csn), csn, "iter", FALSE, {},
                               BeginBroadcast(t, <<"LEAVE", csn>>, csn, "close"),
                               AfterDel(c, IndexOf(clients, csn)))

\* send_private, line 54: self.clients[recipient].send(message).
TLookup(c) ==
    /\ pc[c] = "lookup"
    /\ UNCHANGED used
    /\ LET msg == thr[c].msg
       IN  IF msg[4] \notin Keys(clients)
           THEN ThreadDies(c, "KeyError")
           ELSE IF SockSend(NoDeliv, GetItem(clients, msg[4]),
                            <<"PRIVATE", msg[2], msg[3]>>).exc # "none"
           THEN ThreadExcept(c)
           ELSE ThreadMove(c, "recv", NoThread)

\* send_private, lines 56-62: self.clients[sender].send(ERROR).
TError(c) ==
    /\ pc[c] = "error"
    /\ UNCHANGED used
    /\ LET msg == thr[c].msg
       IN  IF msg[2] \notin Keys(clients)
           THEN ThreadDies(c, "KeyError")
           ELSE IF SockSend(NoDeliv, GetItem(clients, msg[2]),
                            <<"ERROR", NotFound(msg[4])>>).exc # "none"
           THEN ThreadExcept(c)
           ELSE ThreadMove(c, "recv", NoThread)

NextThreads ==
    \E c \in Conns :
        \/ Accept(c)
        \/ TStart(c)
        \/ TList(c)
        \/ TIter(c)
        \/ TRecvFrame(c)
        \/ TLookup(c)
        \/ TError(c)

SpecThreads == Init /\ [][NextThreads]_vars

\* C11: under every interleaving of the handler threads, a registration or
\* removal by one session while another session iterates the registry
\* inside broadcast is never observed in the middle of the iteration: the
\* iterating broadcast does not fail.  Python's dict iterator raises
\* RuntimeError when the dict's size changed under it.
C11_BroadcastNeverFails ==
    \A c \in Conns : ~(pc[c] = "dead" /\ thr[c].exc = "RuntimeError")

\* The connections that were accepted.
Accepted == {c \in Conns : pc[c] # "idle"}

\* The accepted connections have pairwise distinct names, each has processed
\* START and none has processed EXIT.
AllStartedDistinct ==
    /\ \A c \in Accepted : started[c] # {}
    /\ \A a, b \in Accepted : a # b => screen_name[a] # screen_name[b]

\* C12: when C sessions process START concurrently with pairwise distinct
\* names and none of them exits, the registry has exactly C entries, one per
\* name, each mapped to the connection that sent it.
C12_ConcurrentStartsAllRegistered ==
    AllStartedDistinct
    => /\ Len(clients) = Cardinality(Accepted)
       /\ \A c \in Accepted :
              /\ screen_name[c] \in Keys(clients)
              /\ GetItem(clients, screen_name[c]) = c

\* C12's case: all three connections are registered and two of them are
\* still between their registration and their USER_LIST.
C12_Witness ==
    /\ Accepted = Conns
    /\ AllStartedDistinct
    /\ Len(clients) = Cardinality(Conns)
    /\ \E a, b \in Conns : a # b /\ pc[a] = "list" /\ pc[b] = "list"

\* C18: each PRIVATE frame that a registered sender's session processes has
\* a delivery as its outcome, and the sender's session does not fail, also
\* when the recipient's session removes its name between send_private's
\* membership test and its lookup: no thread of a registered sender dies of
\* KeyError inside send_private.
C18_PrivateNeverFailsSender ==
    \A c \in Conns :
        ~(/\ pc[c] = "dead"
          /\ thr[c].exc = "KeyError"
          /\ Len(thr[c].msg) = 4
          /\ thr[c].msg[1] = "PRIVATE"
          /\ thr[c].msg[2] \in Keys(clients)
          /\ GetItem(clients, thr[c].msg[2]) = c)

\* ------------------------------------------------------------ the client
\* One ChatClient: start() runs in the main thread and starts a second
\* thread on receive_messages; both use self.sock and self.connected.

\* The lines typed at the prompt, in all.
MaxInputs == 2

\* The envelopes the server sends to the client, in all.
MaxRecv == 1

\* The name typed at "Enter your screen name: ".
ClientName == NameOrder[1]

\* What the user does at the prompt: a line, "@name line", "!exit", Ctrl+C.
Inputs ==
    {[type |-> "BROADCAST", message |-> t, recipient |-> None] : t \in Texts}
    \cup {[type |-> "PRIVATE", message |-> t, recipient |-> r] :
              t \in Texts, r \in Names \ {ClientName}}
    \cup {[type |-> "EXIT", message |-> None, recipient |-> None],
          [type |-> "KeyboardInterrupt", message |-> None, recipient |-> None]}

\* The list send_message passes to json.dumps.
ClientMsg(msg_type, message, recipient) ==
    IF msg_type = "START" THEN <<"START", ClientName>>
    ELSE IF msg_type = "BROADCAST" THEN <<"BROADCAST", ClientName, message>>
    ELSE IF msg_type = "PRIVATE" THEN <<"PRIVATE", ClientName, message, recipient>>
    ELSE <<"EXIT", ClientName>>

\* ChatClient.send_message on client state k: self.sock.send raises OSError
\* on a closed socket; after an EXIT the flag is cleared and the socket
\* closed.
send_message(k, msg_type, message, recipient) ==
    IF k.closed
    THEN [cl |-> k, exc |-> "OSError"]
    ELSE LET k1 == [k EXCEPT !.wire = Append(@, Frame(ClientMsg(msg_type, message,
                                                               recipient)))]
         IN  [cl  |-> IF msg_type = "EXIT"
                      THEN [k1 EXCEPT !.connected = FALSE, !.closed = TRUE]
                      ELSE k1,
              exc |-> "none"]

\* start(): the receive thread is started.
CStart ==
    /\ cl.main = "start"
    /\ cl' = [cl EXCEPT !.main = "input", !.rcv = "start"]
    /\ UNCHANGED <<server, thr, rx, ord>>

\* receive_messages, line 87: START is sent, outside the try statement.
CSendStart ==
    /\ cl.rcv = "start"
    /\ LET r == send_message(cl, "START", None, None)
       IN  cl' = [r.cl EXCEPT !.rcv = IF r.exc = "none" THEN "loop" ELSE "dead"]
    /\ UNCHANGED <<server, thr, rx, ord>>

\* receive_messages: while self.connected.
CLoopTest ==
    /\ cl.rcv = "loop"
    /\ cl' = [cl EXCEPT !.rcv = IF cl.connected THEN "recv" ELSE "end"]
    /\ UNCHANGED <<server, thr, rx, ord>>

\* receive_messages: an envelope of the server is read and shown.
CRecvEnvelope ==
    /\ cl.rcv = "recv"
    /\ ~cl.closed
    /\ cl.peer = "up"
    /\ cl.recvd < MaxRecv
    /\ \E i \in DOMAIN cl.wire : cl.wire[i].msg[1] = "START"
    /\ cl' = [cl EXCEPT !.rcv = "loop", !.recvd = @ + 1]
    /\ UNCHANGED <<server, thr, rx, ord>>

\* receive_messages: recv returns b'' after the server closed its end: break.
CRecvEOF ==
    /\ cl.rcv = "recv"
    /\ ~cl.closed
    /\ cl.peer = "eof"
    /\ cl' = [cl EXCEPT !.rcv = "end"]
    /\ UNCHANGED <<server, thr, rx, ord>>

\* receive_messages: recv on the socket that the main thread closed raises
\* OSError: the except clause clears the flag and leaves the loop.
CRecvClosed ==
    /\ cl.rcv = "recv"
    /\ cl.closed
    /\ cl' = [cl EXCEPT !.rcv = "end", !.connected = FALSE]
    /\ UNCHANGED <<server, thr, rx, ord>>

\* The server closes the connection.
CServerClose ==
    /\ cl.peer = "up"
    /\ cl.main # "start"
    /\ cl' = [cl EXCEPT !.peer = "eof"]
    /\ UNCHANGED <<server, thr, rx, ord>>

\* start(): one turn of while self.connected.  "!exit" sends EXIT and
\* leaves the loop; Ctrl+C sends EXIT from the except clause; an OSError of
\* send_message leaves the try statement.  All ways out lead to finally.
CInput ==
    /\ cl.main = "input"
    /\ IF ~cl.connected
       THEN cl' = [cl EXCEPT !.main = "join"]
       ELSE /\ cl.inputs < MaxInputs
            /\ \E in \in Inputs :
                 LET type == IF in.type = "KeyboardInterrupt" THEN "EXIT" ELSE in.type
                     r    == send_message([cl EXCEPT !.inputs = @ + 1], type,
                                          in.message, in.recipient)
                 IN  cl' = [r.cl EXCEPT !.main = IF r.exc # "none" \/ type = "EXIT"
                                                 THEN "join" ELSE "input"]
    /\ UNCHANGED <<server, thr, rx, ord>>

\* start(), finally: receive_thread.join() returns once the receive thread
\* has ended, then self.sock.close().
CJoin ==
    /\ cl.main = "join"
    /\ cl.rcv \in {"end", "dead"}
    /\ cl' = [cl EXCEPT !.main = "end", !.closed = TRUE]
    /\ UNCHANGED <<server, thr, rx, ord>>

NextClient ==
    \/ CStart
    \/ CSendStart
    \/ CLoopTest
    \/ CRecvEnvelope
    \/ CRecvEOF
    \/ CRecvClosed
    \/ CServerClose
    \/ CInput
    \/ CJoin

SpecClient == Init /\ [][NextClient]_vars

\* The receive thread is inside the while loop of receive_messages.
ReceiveLoopRuns == cl.rcv \in {"loop", "recv"}

\* C16: after "!exit" the input loop sends EXIT and then waits for the
\* receive loop to finish before the shared socket is closed: the socket is
\* never closed while the receive loop is still running.
C16_CloseAfterReceiveLoop == ~(cl.closed /\ ReceiveLoopRuns)

\* C17: the client sends START exactly once per connection and it is the
\* first frame written to the socket: under every interleaving of the
\* receive thread and the input loop no BROADCAST, PRIVATE or EXIT frame is
\* written before START.
C17_StartIsFirstFrame ==
    /\ Len(cl.wire) > 0 => cl.wire[1].msg[1] = "START"
    /\ Cardinality({i \in DOMAIN cl.wire : cl.wire[i].msg[1] = "START"}) <= 1

\* ------------------------------------------------------------ the framing
\* A frame on the wire is struct.pack('!I', n), four bytes, big-endian,
\* followed by the n bytes of json.dumps(list).encode('utf-8').  The reader
\* is the top of handle_client's loop (and of receive_messages' loop, which
\* has the same statements): recv(4), struct.unpack, recv(msg_len),
\* json.loads.  sock.recv(k) returns between 1 and k of the bytes that are
\* in the socket's receive buffer, and blocks while there are none.

\* The frames written to the stream, in all.
MaxStreamFrames == 2

\* str.encode('utf-8') of the strings that occur in the messages.
Utf8(s) ==
    CASE s = "START" -> <<83, 84, 65, 82, 84>>
      [] s = "BROADCAST" -> <<66, 82, 79, 65, 68, 67, 65, 83, 84>>
      [] s = "PRIVATE" -> <<80, 82, 73, 86, 65, 84, 69>>
      [] s = "EXIT" -> <<69, 88, 73, 84>>
      [] s = "alice" -> <<97, 108, 105, 99, 101>>
      [] s = "bob" -> <<98, 111, 98>>
      [] s = "carol" -> <<99, 97, 114, 111, 108>>
      [] s = "hi" -> <<104, 105>>

\* The lists written to the stream.
RxMsgs == {<<"START", "alice">>, <<"BROADCAST", "alice", "hi">>}

\* json.dumps of a str: the text between double quotes.
JsonStr(s) == <<34>> \o Utf8(s) \o <<34>>

\* json.dumps of the items of a list from item i on, separated by ", ".
RECURSIVE JsonItems(_, _)
JsonItems(msg, i) ==
    IF i > Len(msg) THEN <<>>
    ELSE IF i = Len(msg) THEN JsonStr(msg[i])
    ELSE JsonStr(msg[i]) \o <<44, 32>> \o JsonItems(msg, i + 1)

\* json.dumps(msg).encode('utf-8') of a list of str.
JsonDumps(msg) == <<91>> \o JsonItems(msg, 1) \o <<93>>

\* struct.pack('!I', n).
Pack(n) ==
    <<(n \div 16777216) % 256, (n \div 65536) % 256, (n \div 256) % 256, n % 256>>

\* struct.unpack('!I', b)[0] of four bytes.
Unpack(b) == b[1] * 16777216 + b[2] * 65536 + b[3] * 256 + b[4]

\* msg_len_bytes + msg_bytes.
Encode(msg) == Pack(Len(JsonDumps(msg))) \o JsonDumps(msg)

\* json.loads of bytes read off the stream: the list whose text they are.
\* The bytes of a short read are the text of a list with its end missing,
\* on which json.loads raises JSONDecodeError.
JsonLoads(b) ==
    IF \E m \in RxMsgs : JsonDumps(m) = b
    THEN [ok |-> TRUE, msg |-> CHOOSE m \in RxMsgs : JsonDumps(m) = b]
    ELSE [ok |-> FALSE, msg |-> <<>>]

\* sock.recv(k) on reader state r: the bytes returned.
SockRecv(r, k) ==
    SubSeq(r.bytes, r.pos + 1,
           r.pos + (IF k < r.arrived - r.pos THEN k ELSE r.arrived - r.pos))

\* The other side writes one frame with one send.
RxWrite ==
    /\ Len(rx.sent) < MaxStreamFrames
    /\ \E m \in RxMsgs :
           rx' = [rx EXCEPT !.sent = Append(@, m), !.bytes = @ \o Encode(m)]
    /\ UNCHANGED <<server, thr, cl, ord>>

\* Some more of the written bytes reach the reader's receive buffer.
RxArrive ==
    /\ \E k \in 1..(Len(rx.bytes) - rx.arrived) :
           rx' = [rx EXCEPT !.arrived = @ + k]
    /\ UNCHANGED <<server, thr, cl, ord>>

\* msg_len_bytes = recv(4); msg_len = struct.unpack('!I', msg_len_bytes)[0].
\* unpack raises struct.error on fewer than four bytes, which no except
\* clause catches.
RxRecvLen ==
    /\ rx.pc = "len"
    /\ rx.arrived > rx.pos
    /\ LET b == SockRecv(rx, 4)
       IN  rx' = IF Len(b) < 4
                 THEN [rx EXCEPT !.pos = @ + Len(b), !.pc = "dead",
                                 !.exc = "struct.error"]
                 ELSE [rx EXCEPT !.pos = @ + 4, !.pc = "body",
                                 !.msg_len = Unpack(b)]
    /\ UNCHANGED <<server, thr, cl, ord>>

\* msg = json.loads(recv(msg_len).decode('utf-8')).  JSONDecodeError is a
\* ValueError, which no except clause catches.
RxRecvBody ==
    /\ rx.pc = "body"
    /\ rx.arrived > rx.pos
    /\ LET b == SockRecv(rx, rx.msg_len)
           j == JsonLoads(b)
       IN  rx' = IF j.ok
                 THEN [rx EXCEPT !.pos = @ + Len(b), !.pc = "len",
                                 !.decoded = Append(@, j.msg)]
                 ELSE [rx EXCEPT !.pos = @ + Len(b), !.pc = "dead",
                                 !.exc = "JSONDecodeError"]
    /\ UNCHANGED <<server, thr, cl, ord>>

NextReader ==
    \/ RxWrite
    \/ RxArrive
    \/ RxRecvLen
    \/ RxRecvBody

SpecReader == Init /\ [][NextReader]_vars

\* The number of bytes of the frames of the messages in q.
RECURSIVE WireLen(_)
WireLen(q) == IF q = <<>> THEN 0 ELSE Len(Encode(Head(q))) + WireLen(Tail(q))

\* C14: decoding a frame reads exactly 4 bytes for the length and then
\* exactly that many bytes for the payload, however the stream is cut into
\* chunks across reads: the reader does not fail, the messages it decoded
\* are the first messages written, and between two frames it stands at the
\* first byte of the next frame.
C14_FramesDecodeUnderAnyChunking ==
    /\ rx.pc # "dead"
    /\ Len(rx.decoded) <= Len(rx.sent)
    /\ rx.decoded = SubSeq(rx.sent, 1, Len(rx.decoded))
    /\ rx.pc = "len" => rx.pos = WireLen(rx.decoded)

\* ------------------------------------------------- order on one connection
\* The frames a peer writes reach its handler thread through the
\* connection's byte stream; the handler reads them one after the other and
\* each send it makes has returned before it reads the next.  ord.sent[c]
\* are the frames the peer of c wrote, ord.outq[c] those not yet read,
\* ord.inbox[c] the envelopes sent on connection c so far.  The peers run
\* chat_client.py and the connections stay up.

\* The frames, START apart, that the peers write in all.
MaxOrderFrames == 2

\* Reads the stream from its end: the frame written last comes first.
StreamReadLast(q) == [frame |-> q[Len(q)], rest |-> SubSeq(q, 1, Len(q) - 1)]

\* The two recv calls at the top of handle_client's loop on the unread
\* frames q of the stream: the oldest frame, and what stays unread.
StreamRead(q) == [frame |-> Head(q), rest |-> Tail(q)]

\* The state after the handler of connection c read a frame and ran its
\* iteration with outcome o.
OrderCommit(c, r, o) ==
    /\ clients' = o.clients
    /\ client_screen_name' = [client_screen_name EXCEPT ![c] = o.csn]
    /\ pc' = [pc EXCEPT ![c] = NextPc(o)]
    /\ sockClosed' = [sockClosed EXCEPT ![c] = @ \/ o.close]
    /\ started' = [started EXCEPT ![c] = NextStarted(c, "frame", r.frame, o)]
    /\ last' = NoLast
    /\ ord' = [ord EXCEPT !.outq[c] = r.rest,
                          !.inbox = [d \in Conns |-> @[d] \o o.deliv[d]]]
    /\ UNCHANGED <<link, screen_name, used, thr, cl, rx>>

\* The peer of connection c writes its next frame: START first, then what
\* the user types, and nothing after EXIT.
OWrite(c) ==
    /\ pc[c] # "idle"
    /\ \E f \in IF ord.sent[c] = <<>>
               THEN {StartFrame(screen_name[c])}
               ELSE IF \/ ord.sent[c][Len(ord.sent[c])].msg[1] = "EXIT"
                       \/ used.frames >= MaxOrderFrames
                    THEN {}
                    ELSE InputFrames(screen_name[c]) :
         /\ ord' = [ord EXCEPT !.sent[c] = Append(@, f), !.outq[c] = Append(@, f)]
         /\ used' = [used EXCEPT !.frames = IF f.msg[1] = "START" THEN @ ELSE @ + 1]
    /\ last' = NoLast
    /\ UNCHANGED <<clients, pc, client_screen_name, sockClosed, link, started,
                   screen_name, thr, cl, rx>>

\* The handler of connection c reads the next frame and processes it.
ORead(c) ==
    /\ pc[c] = "recv"
    /\ ord.outq[c] # <<>>
    /\ LET r == StreamRead(ord.outq[c])
       IN  OrderCommit(c, r, HandleFrame(c, r.frame, clients, client_screen_name[c]))

NextOrder ==
    \E c \in Conns :
        \/ Accept(c)
        \/ OWrite(c)
        \/ ORead(c)

SpecOrder == Init /\ [][NextOrder]_vars

\* The envelope that frame f of sender S makes the server send to the
\* connection registered as name r, in a one-element sequence; none for a
\* frame that is not addressed to r.
EnvelopeFor(f, r) ==
    IF f.msg[1] = "BROADCAST" THEN << <<"BROADCAST", f.msg[2], f.msg[3]>> >>
    ELSE IF f.msg[1] = "PRIVATE" /\ f.msg[4] = r
         THEN << <<"PRIVATE", f.msg[2], f.msg[3]>> >>
         ELSE <<>>

\* The envelopes for r of the frames q, in the order of q.
RECURSIVE EnvelopesFor(_, _)
EnvelopesFor(q, r) ==
    IF q = <<>> THEN <<>> ELSE EnvelopeFor(Head(q), r) \o EnvelopesFor(Tail(q), r)

\* The BROADCAST and PRIVATE envelopes of inbox q whose sender is s.
FromSender(q, s) ==
    SelectSeq(q, LAMBDA e : e[1] \in {"BROADCAST", "PRIVATE"} /\ e[2] = s)

\* a can be got from b by leaving elements out.
RECURSIVE IsSubseq(_, _)
IsSubseq(a, b) ==
    IF a = <<>> THEN TRUE
    ELSE IF b = <<>> THEN FALSE
    ELSE IF Head(a) = Head(b) THEN IsSubseq(Tail(a), Tail(b))
    ELSE IsSubseq(a, Tail(b))

\* The accepted connections have pairwise distinct screen names.
DistinctNames ==
    \A a, b \in Accepted : a # b => screen_name[a] # screen_name[b]

\* C15: for a sender S and a recipient R, the BROADCAST and PRIVATE
\* envelopes that R receives from S arrive in the order in which S sent the
\* frames they come from: what R's connection got from S is, in this order,
\* part of what S's frames address to R.
C15_PerSenderOrder ==
    DistinctNames
    => \A S, R \in Accepted :
           S # R => IsSubseq(FromSender(ord.inbox[R], screen_name[S]),
                             EnvelopesFor(ord.sent[S], screen_name[R]))

\* C15's case: R has received a BROADCAST and a PRIVATE envelope from S.
C15_Witness ==
    /\ DistinctNames
    /\ \E S, R \in Accepted :
           /\ S # R
           /\ Len(FromSender(ord.inbox[R], screen_name[S])) >= 2
           /\ \E i, j \in DOMAIN ord.inbox[R] :
                  /\ ord.inbox[R][i][1] = "BROADCAST"
                  /\ ord.inbox[R][j][1] = "PRIVATE"
                  /\ ord.inbox[R][i][2] = screen_name[S]
                  /\ ord.inbox[R][j][2] = screen_name[S]

====
